---- MODULE Spec2Model ----
(***************************************************************************)
(* Model of the instaapp front end: the API client's request lifecycle     *)
(* (src/src/lib/api.ts, class ApiClient), its token store, the dashboard   *)
(* logout handlers and the feed dashboard: optimistic likes and comments,   *)
(* the pagination cursor and infinite scroll, and the route guard.         *)
(*                                                                         *)
(* Six specifications share the module:                                   *)
(*   SpecEnvelope  the envelope a call returns, as a function of what the  *)
(*                 network did (every body shape of Bodies);               *)
(*   Spec          one call followed through issue, headers, body, timer,  *)
(*                 with the token store and the logout handlers;           *)
(*   SpecFeed      the feed dashboard with the like actions in flight;     *)
(*   SpecComments  the feed dashboard with the comment submissions in      *)
(*                 flight;                                                 *)
(*   SpecPages     the feed dashboard with the pagination cursor: first-   *)
(*                 page fetches, load-more fetches, the scroll observer    *)
(*                 and the cursor reset;                                   *)
(*   SpecGuard     the route guard (src/src/middleware.ts) deciding on the  *)
(*                 paths a browser asks for and on its own redirects.      *)
(* The three dashboard specifications take every event of the page (mount  *)
(* effect, responses, renders, the error banner, the post form, likes,     *)
(* comments, the scroll observer) from the moment the profile has arrived; *)
(* each has its own replies and follows MaxEvents events of a run.         *)
(***************************************************************************)
EXTENDS Integers, Sequences, FiniteSets, Bags, TLC

VARIABLES
    \* ---- SpecEnvelope
    pureIn,         \* the network outcome handed to the call
    pureOut,        \* what the call gave back to its caller
    \* ---- Spec: session store (localStorage + document.cookie)
    hasWindow,      \* typeof window !== 'undefined'
    localStorage,   \* localStorage['auth_token']: None or Some(token)
    cookie,         \* the auth_token cookie: None or Some(value)
    \* ---- Spec: the call being followed and the dashboard around it
    call,           \* the request in flight (or the last one settled)
    variant,        \* which DashboardPage.handleLogout is mounted
    isLoggingOut,   \* useState(false) of the guarded logout handlers
    \* ---- SpecFeed
    user,           \* React state `user`: the permissions of the profile
    posts,          \* React state `posts` with every queued update applied
    rendered,       \* `posts` as of the last render (what closures read)
    likes,          \* handleLike invocations awaiting their response
    error,          \* React state `error`
    lastLike,       \* the last handleLike invocation that settled
    ledger,         \* the list as loaded and the toggles applied since
    \* ---- SpecComments
    newComment,     \* React state `newComment`: the input buffer of each post
    submits,        \* handleComment invocations awaiting their response
    created,        \* how many comments the server has been asked to create
    lastSubmit,     \* the last handleComment invocation that settled
    \* ---- SpecPages
    cursor,         \* React state `pagination`, `hasMorePosts`, `isLoadingMore`, `isLoading`
    seen,           \* the cursor and the error as of the last render
    loads,          \* the bag of getPosts calls awaiting their response
    lastLoad,       \* the last getPosts call that settled, or the post just created
    latest,         \* the cursor of the latest successful posts response
    events,         \* how many events of the dashboard the run has followed
    \* ---- SpecGuard
    nav             \* the navigation the route guard is deciding on

vars == << pureIn, pureOut, hasWindow, localStorage, cookie, call, variant,
           isLoggingOut, user, posts, rendered, likes, error, lastLike, ledger,
           newComment, submits, created, lastSubmit,
           cursor, seen, loads, lastLoad, latest, events, nav >>

envVars == << pureIn, pureOut >>
storeVars == << hasWindow, localStorage, cookie >>
callVars == << call, variant, isLoggingOut >>
likeVars == << rendered, likes, lastLike, ledger >>
commentVars == << newComment, submits, created, lastSubmit >>
pageVars == << cursor, seen, loads, lastLoad, latest, events >>
feedVars == << user, nav, posts, error, likeVars, commentVars, pageVars >>

\* no request has reached the route guard
NoNavigation == [ phase |-> "idle", path |-> << >>, asked |-> << >>, hops |-> 0,
                  decision |-> << >> ]

\* nothing is loaded and no like button was clicked
NoLedger == [ clean |-> FALSE, initial |-> << >>, count |-> << >>, applied |-> 0 ]

\* useState(true) of line 261 (isLoading) and useState(null), useState(true),
\* useState(false) of lines 266-270
InitialCursor ==
    [pagination |-> << >>, hasMorePosts |-> TRUE, isLoadingMore |-> FALSE, isLoading |-> TRUE]

\* what a render closes over besides the posts: the cursor, and whether
\* there is an error, which puts the banner with Dismiss and Retry on the
\* page (line 600)
View(cur, err) ==
    [ pagination |-> cur.pagination, hasMorePosts |-> cur.hasMorePosts,
      isLoadingMore |-> cur.isLoadingMore, isLoading |-> cur.isLoading,
      banner |-> err # << >> ]

\* the profile the dashboard holds: what the user may do
Profile(like) == [ can_like_post |-> like, can_create_post |-> TRUE, can_create_comment |-> TRUE ]

\* the dashboard's comment and pagination state as the component is constructed
FeedIdle ==
    /\ ledger = NoLedger
    /\ newComment = << >>
    /\ submits = << >>
    /\ created = 0
    /\ lastSubmit = << >>
    /\ cursor = InitialCursor
    /\ seen = View(InitialCursor, << >>)
    /\ loads = EmptyBag
    /\ lastLoad = << >>
    /\ latest = << >>
    /\ events = 0
    /\ nav = NoNavigation

-----------------------------------------------------------------------------
(* Bounds *)

MaxTokenLen == 1
MaxTicks == 3
MaxInFlight == 2
MaxToggles == 3
\* how many events of the dashboard (effects, clicks, inputs, responses,
\* renders) a run follows
MaxEvents == 9

(* Program constants *)

TIMEOUT == 10000

-----------------------------------------------------------------------------
(* JavaScript values.  An atom is [kind, val] with val the value's JSON     *)
(* text; a value carries the three properties the client reads from a body. *)

Atom(k, v) == [kind |-> k, val |-> v]
UndefinedAtom == Atom("undefined", "")

Lift(a) == [kind |-> a.kind, val |-> a.val,
            data |-> UndefinedAtom, message |-> UndefinedAtom, errors |-> UndefinedAtom]

Undefined == Lift(UndefinedAtom)
Null == Lift(Atom("null", "null"))
Str(s) == Lift(Atom("string", s))

Obj(d, m, e) == [kind |-> "object", val |-> "", data |-> d, message |-> m, errors |-> e]

\* ToBoolean: undefined, null, false, 0 and '' are falsy; [] and {} are truthy.
Truthy(v) ==
    \/ v.kind \in {"object", "array"}
    \/ v.kind = "string" /\ v.val # ""
    \/ v.kind = "number" /\ v.val # "0"
    \/ v.kind = "boolean" /\ v.val = "true"

\* a || b
Or(a, b) == IF Truthy(a) THEN a ELSE b

\* a ?? b
Coalesce(a, b) == IF a.kind \in {"undefined", "null"} THEN b ELSE a

\* v.data, v.message, v.errors of a non-null value
PropData(v) == Lift(v.data)
PropMessage(v) == Lift(v.message)
PropErrors(v) == Lift(v.errors)

-----------------------------------------------------------------------------
(* Thrown values, envelopes and what the network can do to one call *)

Err(isErr, n, m) == [isError |-> isErr, name |-> n, message |-> m]
NoErr == Err(FALSE, "", "")
AbortError == Err(TRUE, "AbortError", "signal is aborted without reason")
\* what response.json() rejects with on a body that is not JSON: the name is
\* SyntaxError, the text is the JavaScript engine's (V8 up to Node 18, V8 since)
SyntaxErrors ==
    { Err(TRUE, "SyntaxError", "Unexpected token < in JSON at position 0"),
      Err(TRUE, "SyntaxError", "Unexpected token '<', \"<html>\" is not valid JSON") }
NullReadError(prop) == Err(TRUE, "TypeError", "Cannot read properties of null (reading '" \o prop \o "')")

\* ApiResponse<T>: an absent key is Undefined
Envelope(s, d, m, e) == [success |-> s, data |-> d, message |-> m, errors |-> e]
NoEnvelope == Envelope(FALSE, Undefined, Undefined, Undefined)

\* how an async function ends: it returns an envelope or it throws
Return(env) == [threw |-> FALSE, err |-> NoErr, env |-> env]
Throw(e) == [threw |-> TRUE, err |-> e, env |-> NoEnvelope]

Outcome(k, ok, parses, body, e) ==
    [kind |-> k, ok |-> ok, parses |-> parses, body |-> body, err |-> e]
ResponseOutcome(ok, body) == Outcome("response", ok, TRUE, body, NoErr)
NotJsonOutcome(ok, e) == Outcome("response", ok, FALSE, Undefined, e)
RejectOutcome(e) == Outcome("reject", FALSE, FALSE, Undefined, e)
AbortOutcome == Outcome("abort", FALSE, FALSE, Undefined, NoErr)

DataAtoms ==
    { UndefinedAtom, Atom("null", "null"), Atom("number", "0"), Atom("boolean", "false"),
      Atom("string", ""), Atom("array", "[]"), Atom("object", "{\"id\":1}") }
MessageAtoms ==
    { UndefinedAtom, Atom("null", "null"), Atom("string", ""),
      Atom("string", "The given data was invalid.") }
ErrorsAtoms == { UndefinedAtom, Atom("object", "{\"email\":[\"taken\"]}") }

\* every JSON body the model hands to response.json(): objects and null
Bodies == { Obj(d, m, e) : d \in DataAtoms, m \in MessageAtoms, e \in ErrorsAtoms } \cup { Null }

\* what fetch() can reject with when the connection fails
Faults == { Err(TRUE, "TypeError", "Failed to fetch"), Err(TRUE, "TypeError", ""),
            Err(FALSE, "", "offline") }

Outcomes ==
    { ResponseOutcome(ok, b) : ok \in BOOLEAN, b \in Bodies }
    \cup { NotJsonOutcome(ok, e) : ok \in BOOLEAN, e \in SyntaxErrors }
    \cup { RejectOutcome(e) : e \in Faults }
    \cup { AbortOutcome }

-----------------------------------------------------------------------------
(* ApiClient.request, lines 36-79: the try block and the catch block *)


\* await fetch(...); await response.json(); the two returns
RequestTry(o) ==
    CASE o.kind = "reject" -> Throw(o.err)
      [] o.kind = "abort" -> Throw(AbortError)
      [] OTHER ->
            IF ~o.parses THEN Throw(o.err)
            ELSE IF ~o.ok
                 THEN IF o.body.kind = "null" THEN Throw(NullReadError("message"))
                      ELSE Return(Envelope(FALSE, Undefined,
                                           Or(PropMessage(o.body), Str("An error occurred")),
                                           PropErrors(o.body)))
                 ELSE IF o.body.kind = "null" THEN Throw(NullReadError("data"))
                      ELSE Return(Envelope(TRUE, Or(PropData(o.body), o.body),
                                           PropMessage(o.body), Undefined))

RequestCatch(e) ==
    IF e.isError
    THEN IF e.name = "AbortError"
         THEN Envelope(FALSE, Undefined, Str("Request timeout. Please try again."), Undefined)
         ELSE Envelope(FALSE, Undefined, Or(Str(e.message), Str("Network error occurred")), Undefined)
    ELSE Envelope(FALSE, Undefined, Str("An unexpected error occurred"), Undefined)


\* Request with no catch block: what the try block throws reaches the caller
RequestNoCatch(o) == RequestTry(o)

Request(o) ==
    LET c == RequestTry(o) IN IF c.threw THEN Return(RequestCatch(c.err)) ELSE c

(* ApiClient.createPostWithFile, lines 174-217 *)


\* UploadTry whose error return also carries the body's data
UploadTryKeepsData(o) ==
    CASE o.kind = "reject" -> Throw(o.err)
      [] o.kind = "abort" -> Throw(AbortError)
      [] OTHER ->
            IF ~o.parses THEN Throw(o.err)
            ELSE IF ~o.ok
                 THEN IF o.body.kind = "null" THEN Throw(NullReadError("message"))
                      ELSE Return(Envelope(FALSE, PropData(o.body),
                                           Or(PropMessage(o.body), Str("An error occurred")),
                                           PropErrors(o.body)))
                 ELSE IF o.body.kind = "null" THEN Throw(NullReadError("data"))
                      ELSE Return(Envelope(TRUE, Or(PropData(o.body), o.body),
                                           PropMessage(o.body), Undefined))

UploadTry(o) ==
    CASE o.kind = "reject" -> Throw(o.err)
      [] o.kind = "abort" -> Throw(AbortError)
      [] OTHER ->
            IF ~o.parses THEN Throw(o.err)
            ELSE IF ~o.ok
                 THEN IF o.body.kind = "null" THEN Throw(NullReadError("message"))
                      ELSE Return(Envelope(FALSE, Undefined,
                                           Or(PropMessage(o.body), Str("An error occurred")),
                                           PropErrors(o.body)))
                 ELSE IF o.body.kind = "null" THEN Throw(NullReadError("data"))
                      ELSE Return(Envelope(TRUE, Or(PropData(o.body), o.body),
                                           PropMessage(o.body), Undefined))

\* UploadCatch with a message of its own for the timeout
UploadCatchOwnTimeoutMessage(e) ==
    IF e.isError
    THEN IF e.name = "AbortError"
         THEN Envelope(FALSE, Undefined, Str("Upload timeout. Please try again."), Undefined)
         ELSE Envelope(FALSE, Undefined, Or(Str(e.message), Str("Network error occurred")), Undefined)
    ELSE Envelope(FALSE, Undefined, Str("An unexpected error occurred"), Undefined)

UploadCatch(e) ==
    IF e.isError
    THEN IF e.name = "AbortError"
         THEN Envelope(FALSE, Undefined, Str("Request timeout. Please try again."), Undefined)
         ELSE Envelope(FALSE, Undefined, Or(Str(e.message), Str("Network error occurred")), Undefined)
    ELSE Envelope(FALSE, Undefined, Str("An unexpected error occurred"), Undefined)

CreatePostWithFile(o) ==
    LET c == UploadTry(o) IN IF c.threw THEN Return(UploadCatch(c.err)) ELSE c

\* the two transports, by the method that uses them
Transport(method, o) == IF method = "createPostWithFile" THEN CreatePostWithFile(o) ELSE Request(o)

-----------------------------------------------------------------------------
(* SpecEnvelope: one call of either transport on one network outcome *)

Pending == [threw |-> FALSE, err |-> NoErr, env |-> NoEnvelope, settled |-> FALSE]
Settled(c) == [threw |-> c.threw, err |-> c.err, env |-> c.env, settled |-> TRUE]

EnvInit ==
    /\ pureIn \in [method : {"getProfile", "createPostWithFile"}, outcome : Outcomes]
    /\ pureOut = Pending

Resolve ==
    /\ ~pureOut.settled
    /\ pureOut' = Settled(Transport(pureIn.method, pureIn.outcome))
    /\ UNCHANGED << pureIn, storeVars, callVars, feedVars >>

-----------------------------------------------------------------------------
(* Session store: ApiClient.setToken / getToken / removeToken / isAuthenticated *)

None == << >>
Some(x) == << x >>

TokenChars == {"a", ";"}
Tokens == UNION { [1..n -> TokenChars] : n \in 0..MaxTokenLen }

Store(ls, ck) == [ls |-> ls, ck |-> ck]
CurrentStore == Store(localStorage, cookie)

\* the string assigned to document.cookie, cut into the pieces the cookie
\* parser tells apart: the name, the token's characters, ';' and attributes
SetCookieString(token) ==
    << "auth_token=" >> \o token \o << ";", " path=/", ";", " max-age=604800", ";", " SameSite=Lax" >>
RemoveCookieString ==
    << "auth_token=", ";", " path=/", ";", " expires=Thu, 01 Jan 1970 00:00:00 GMT" >>

\* the part of a cookie string before its first ';' (the name=value pair)
CookiePair(str) ==
    LET semis == { i \in 1..Len(str) : str[i] = ";" }
    IN  IF semis = {} THEN str
        ELSE SubSeq(str, 1, (CHOOSE i \in semis : \A j \in semis : i <= j) - 1)

\* document.cookie = str, for the auth_token cookie: the value is what follows
\* the name in the pair; an expiry in the past deletes the cookie
DocumentCookie(str) ==
    LET attrs == { str[i] : i \in 1..Len(str) }
    IN  IF " expires=Thu, 01 Jan 1970 00:00:00 GMT" \in attrs /\ " max-age=604800" \notin attrs
        THEN None
        ELSE Some(Tail(CookiePair(str)))

\* setToken(token), lines 110-116
SetToken(st, token) ==
    IF hasWindow THEN Store(Some(token), DocumentCookie(SetCookieString(token))) ELSE st

\* getToken(), lines 118-123
GetToken == IF hasWindow THEN localStorage ELSE None

\* removeToken(), lines 125-131
RemoveToken(st) ==
    IF hasWindow THEN Store(None, DocumentCookie(RemoveCookieString)) ELSE st

\* truthiness of string | null
TokenTruthy(opt) == opt # None /\ opt[1] # << >>

\* isAuthenticated(), lines 133-135
IsAuthenticated == TokenTruthy(GetToken)

-----------------------------------------------------------------------------
(* Headers of an outgoing request *)

Bearer(token) == << "Bearer " >> \o token

Headers(ct, acc, auth) == [ContentType |-> ct, Accept |-> acc, Authorization |-> auth]

\* request, lines 18-34
RequestHeaders(token) ==
    Headers(Some("application/json"), Some("application/json"),
            IF TokenTruthy(token) THEN Some(Bearer(token[1])) ELSE None)


\* UploadHeaders without the Authorization header
UploadHeadersNoAuth(token) == Headers(None, Some("application/json"), None)

\* createPostWithFile, lines 157-172
UploadHeaders(token) ==
    Headers(None, Some("application/json"),
            IF TokenTruthy(token) THEN Some(Bearer(token[1])) ELSE None)

HeadersFor(method, token) ==
    IF method = "createPostWithFile" THEN UploadHeaders(token) ELSE RequestHeaders(token)

\* the body handed to fetch: createPostWithFile passes its FormData argument
\* as it is (line 159); getProfile and logout send no body
BodyFor(method) == IF method = "createPostWithFile" THEN Some("formData") ELSE None

-----------------------------------------------------------------------------
(* Spec: one call through its lifecycle.  Time is in milliseconds and moves *)
(* in steps of TickMs; `elapsed` is the time since the call was issued.     *)

TickMs == TIMEOUT \div 2
MaxElapsed == MaxTicks * TickMs

Variants == {"page_v1", "page_v2", "feed"}

\* the bodies the lifecycle hands out (SpecEnvelope covers all of Bodies)
LifecycleBodies ==
    { Obj(Atom("object", "{\"id\":1}"), UndefinedAtom, UndefinedAtom),
      Obj(UndefinedAtom, Atom("string", "The given data was invalid."),
          Atom("object", "{\"email\":[\"taken\"]}")),
      Obj(Atom("number", "0"), Atom("string", ""), UndefinedAtom),
      Null }

NoHeaders == Headers(None, None, None)
NoStore == Store(None, None)

IdleCall ==
    [ phase |-> "idle", method |-> "getProfile", elapsed |-> 0, armed |-> FALSE,
      headers |-> NoHeaders, body |-> None, issuedWith |-> None, sent |-> 0, ok |-> FALSE,
      outcome |-> AbortOutcome, result |-> Return(NoEnvelope), settledAt |-> 0,
      before |-> NoStore, afterApi |-> NoStore, afterHandler |-> NoStore ]

\* request lines 18-43 / createPostWithFile lines 157-181: build the headers
\* from getToken(), arm the abort timer, call fetch once
IssuedCall(method) ==
    [ IdleCall EXCEPT !.phase = "fetching", !.method = method, !.armed = TRUE,
                      !.headers = HeadersFor(method, GetToken), !.body = BodyFor(method),
                      !.issuedWith = localStorage, !.sent = 1 ]

SlotFree == call.phase \in {"idle", "done"}


\* Logout that clears the token whatever the envelope says
LogoutAlwaysClears(c, st) == RemoveToken(st)

\* ApiClient.logout, lines 97-107, once request has completed with c
Logout(c, st) == IF ~c.threw /\ c.env.success THEN RemoveToken(st) ELSE st

\* the finally block of DashboardPage.handleLogout:
\*   page.tsx 39-47 (page_v1), page.tsx 162-180 (page_v2), api.ts 379-397 (feed)
HandleLogoutFinally(v, st) == IF v \in {"page_v2", "feed"} THEN RemoveToken(st) ELSE st

\* SettleCall that sends a request which was rejected or timed out once more
SettleCallResends(o, armedAfter) ==
    IF o.kind \in {"reject", "abort"} /\ call.sent < 2
    THEN /\ call' = [ call EXCEPT !.phase = "fetching", !.armed = TRUE, !.elapsed = 0,
                                   !.sent = call.sent + 1 ]
         /\ UNCHANGED << localStorage, cookie >>
    ELSE LET c == Transport(call.method, o)
             st0 == CurrentStore
             st1 == IF call.method = "logout" THEN Logout(c, st0) ELSE st0
             st2 == IF call.method = "logout" THEN HandleLogoutFinally(variant, st1) ELSE st1
             isLogout == call.method = "logout"
         IN  /\ call' = [ call EXCEPT !.phase = "done", !.armed = armedAfter, !.outcome = o,
                                      !.result = c, !.settledAt = call.elapsed,
                                      !.before = IF isLogout THEN st0 ELSE NoStore,
                                      !.afterApi = IF isLogout THEN st1 ELSE NoStore,
                                      !.afterHandler = IF isLogout THEN st2 ELSE NoStore ]
             /\ localStorage' = st2.ls
             /\ cookie' = st2.ck

\* the call completes on outcome o: the transport maps it to an envelope and
\* the awaiting code (ApiClient.logout, then the handler's finally) runs on.
\* before, afterApi and afterHandler record the store around a logout: before
\* the envelope was known, when ApiClient.logout returned, when the handler ended
SettleCall(o, armedAfter) ==
    LET c == Transport(call.method, o)
        st0 == CurrentStore
        st1 == IF call.method = "logout" THEN Logout(c, st0) ELSE st0
        st2 == IF call.method = "logout" THEN HandleLogoutFinally(variant, st1) ELSE st1
        isLogout == call.method = "logout"
    IN  /\ call' = [ call EXCEPT !.phase = "done", !.armed = armedAfter, !.outcome = o,
                                 !.result = c, !.settledAt = call.elapsed,
                                 !.before = IF isLogout THEN st0 ELSE NoStore,
                                 !.afterApi = IF isLogout THEN st1 ELSE NoStore,
                                 !.afterHandler = IF isLogout THEN st2 ELSE NoStore ]
        /\ localStorage' = st2.ls
        /\ cookie' = st2.ck

Init ==
    /\ hasWindow \in BOOLEAN
    /\ localStorage = None
    /\ cookie = None
    /\ call = IdleCall
    /\ variant \in Variants
    /\ isLoggingOut = FALSE
    /\ pureIn = [method |-> "getProfile", outcome |-> AbortOutcome]
    /\ pureOut = Pending
    /\ user = Profile(FALSE)
    /\ posts = << >>
    /\ rendered = << >>
    /\ likes = << >>
    /\ error = None
    /\ lastLike = << >>
    /\ FeedIdle

\* apiClient.setToken(token), called by the login and register pages
SetTokenCall(token) ==
    /\ localStorage' = SetToken(CurrentStore, token).ls
    /\ cookie' = SetToken(CurrentStore, token).ck
    /\ hasWindow
    /\ UNCHANGED << hasWindow, callVars, envVars, feedVars >>

\* apiClient.removeToken()
RemoveTokenCall ==
    /\ hasWindow
    /\ CurrentStore # NoStore
    /\ localStorage' = RemoveToken(CurrentStore).ls
    /\ cookie' = RemoveToken(CurrentStore).ck
    /\ UNCHANGED << hasWindow, callVars, envVars, feedVars >>

\* a typed method built on request (getProfile) or createPostWithFile is called
Issue(method) ==
    /\ SlotFree
    /\ call' = IssuedCall(method)
    /\ UNCHANGED << storeVars, variant, isLoggingOut, envVars, feedVars >>

\* the Logout button: DashboardPage.handleLogout up to `await apiClient.logout()`
HandleLogout(confirmed) ==
    /\ hasWindow
    /\ SlotFree
    /\ IF variant = "page_v1"
       THEN /\ call' = IssuedCall("logout")
            /\ UNCHANGED isLoggingOut
       ELSE IF isLoggingOut \/ ~confirmed
            THEN UNCHANGED << call, isLoggingOut >>
            ELSE /\ isLoggingOut' = TRUE
                 /\ call' = IssuedCall("logout")
    /\ UNCHANGED << storeVars, variant, envVars, feedVars >>

\* the dashboard is mounted again after the redirect: useState(false)
\* and the mount effect: without a token it only pushes /login, with one it
\* calls apiClient.getProfile()
Mount ==
    /\ isLoggingOut
    /\ call.phase = "done"
    /\ isLoggingOut' = FALSE
    /\ call' = IF IsAuthenticated THEN IssuedCall("getProfile") ELSE call
    /\ UNCHANGED << storeVars, variant, envVars, feedVars >>

\* the abort timer may run: it is armed and its delay has passed.  It is a
\* task like any other, so it can run late: time may move on and the fetch
\* may settle first
TimerDue == call.armed /\ call.elapsed >= TIMEOUT

\* time passes
Tick ==
    /\ call.phase \in {"fetching", "reading"}
    /\ call.elapsed + TickMs <= MaxElapsed
    /\ call' = [call EXCEPT !.elapsed = call.elapsed + TickMs]
    /\ UNCHANGED << storeVars, variant, isLoggingOut, envVars, feedVars >>

\* fetch resolves with the response's status line and headers; line 45
\* clears the timer
FetchResolve(ok) ==
    /\ call.phase = "fetching"
    /\ call' = [call EXCEPT !.phase = "reading", !.ok = ok, !.armed = FALSE]
    /\ UNCHANGED << storeVars, variant, isLoggingOut, envVars, feedVars >>

\* fetch rejects (connection failure); the catch block leaves the timer armed
FetchReject(e) ==
    /\ call.phase = "fetching"
    /\ SettleCall(RejectOutcome(e), TRUE)
    /\ UNCHANGED << hasWindow, variant, isLoggingOut, envVars, feedVars >>

\* setTimeout(() => controller.abort(), this.timeout) runs while fetch is pending
TimerFire ==
    /\ call.phase = "fetching"
    /\ TimerDue
    /\ SettleCall(AbortOutcome, FALSE)
    /\ UNCHANGED << hasWindow, variant, isLoggingOut, envVars, feedVars >>

\* the timer of a call that already failed runs: abort() of a finished fetch
StrayTimer ==
    /\ call.phase = "done"
    /\ call.armed
    /\ call' = [call EXCEPT !.armed = FALSE]
    /\ UNCHANGED << storeVars, variant, isLoggingOut, envVars, feedVars >>

\* response.json() settles: the body has arrived and parses (e is NoErr), or
\* does not and response.json() rejects with e
ReadBody(parses, body, e) ==
    /\ call.phase = "reading"
    /\ SettleCall(Outcome("response", call.ok, parses, IF parses THEN body ELSE Undefined, e),
                  FALSE)
    /\ UNCHANGED << hasWindow, variant, isLoggingOut, envVars, feedVars >>

Next ==
    \/ \E t \in Tokens : SetTokenCall(t)
    \/ RemoveTokenCall
    \/ \E m \in {"getProfile", "createPostWithFile"} : Issue(m)
    \/ \E c \in BOOLEAN : HandleLogout(c)
    \/ Mount
    \/ Tick
    \/ \E ok \in BOOLEAN : FetchResolve(ok)
    \/ \E e \in Faults : FetchReject(e)
    \/ TimerFire
    \/ StrayTimer
    \/ \E b \in LifecycleBodies : ReadBody(TRUE, b, NoErr)
    \/ \E e \in SyntaxErrors : ReadBody(FALSE, Undefined, e)

Spec == Init /\ [][Next]_vars

EnvInitAll ==
    /\ EnvInit
    /\ hasWindow = TRUE
    /\ localStorage = None
    /\ cookie = None
    /\ call = IdleCall
    /\ variant = "feed"
    /\ isLoggingOut = FALSE
    /\ user = Profile(FALSE)
    /\ posts = << >>
    /\ rendered = << >>
    /\ likes = << >>
    /\ error = None
    /\ lastLike = << >>
    /\ FeedIdle

EnvNext == Resolve

SpecEnvelope == EnvInitAll /\ [][EnvNext]_vars

-----------------------------------------------------------------------------
(* SpecFeed: the feed dashboard's post list and its optimistic like handler. *)
(* `posts` is the React state with every queued updater applied; `rendered`  *)
(* is the value the last render closed over, which is what a handler reads   *)
(* through its closure, and `seen` is the same for the cursor and the error. *)
(* Updates made in a click or input handler are rendered before the next      *)
(* event; updates made after an await or by the scroll observer wait for the *)
(* Render step.  A control can be used when the last render put it on the     *)
(* page: nothing while the spinner of line 553 is shown, the buttons of a    *)
(* post when the post was rendered, Dismiss and Retry when the render had an *)
(* error.  The three dashboard specifications start when the profile has     *)
(* arrived and take every event of the page; they differ in the replies and  *)
(* in how many events of each kind they follow.                              *)

\* the posts of the first page
PostIds == {1, 2}

\* the post whose like button is clicked, and in SpecFeed and SpecPages the
\* post that is commented on; the other one stands by
Clicked == {1}

\* the calls of the dashboard that are followed at once: two likes, a like
\* and a load of the list, a like and a comment, or two loads
FeedCalls == {1, 2}

Post(id, liked, n) ==
    [id |-> id, is_liked |-> liked, likes_count |-> n, comments |-> << >>, comments_count |-> 0]

\* what the server may say of one post: liked by nobody, by somebody else,
\* by this user
ServerPost(id) == { Post(id, FALSE, 0), Post(id, FALSE, 1), Post(id, TRUE, 1) }

\* the first page of GET /post: what the server says of post 1 varies
ServerFeeds == { << p1, Post(2, FALSE, 0) >> : p1 \in ServerPost(1) }

\* what the network does to a like call
FeedOutcomes ==
    { ResponseOutcome(TRUE, Obj(Atom("object", "{\"id\":1}"), UndefinedAtom, UndefinedAtom)),
      ResponseOutcome(FALSE, Obj(UndefinedAtom, Atom("string", "The given data was invalid."),
                                 UndefinedAtom)),
      RejectOutcome(Err(TRUE, "TypeError", "Failed to fetch")),
      AbortOutcome }

\* posts.find(p => p.id === postId): the index of the post, 0 when there is none
Find(ps, postId) ==
    IF \E i \in 1..Len(ps) : ps[i].id = postId
    THEN CHOOSE i \in 1..Len(ps) : ps[i].id = postId /\ \A j \in 1..(i - 1) : ps[j].id # postId
    ELSE 0

Values(p) == [is_liked |-> p.is_liked, likes_count |-> p.likes_count]
NoValues == [is_liked |-> FALSE, likes_count |-> -1]
ValuesOf(ps, postId) == IF Find(ps, postId) = 0 THEN NoValues ELSE Values(ps[Find(ps, postId)])

\* a plausible slip in the optimistic updater: the count only ever goes up
ToggleLikeAlwaysAdds(ps, postId) ==
    [ i \in 1..Len(ps) |->
        IF ps[i].id = postId
        THEN [ ps[i] EXCEPT !.is_liked = ~ps[i].is_liked,
                            !.likes_count = ps[i].likes_count + 1 ]
        ELSE ps[i] ]

\* lines 410-419: the optimistic updater
ToggleLike(ps, postId) ==
    [ i \in 1..Len(ps) |->
        IF ps[i].id = postId
        THEN [ ps[i] EXCEPT !.is_liked = ~ps[i].is_liked,
                            !.likes_count = IF ps[i].is_liked THEN ps[i].likes_count - 1
                                            ELSE ps[i].likes_count + 1 ]
        ELSE ps[i] ]

\* lines 428-437 and 442-451: the updater that undoes a failed like, from the
\* post the handler captured
RevertLike(ps, postId, post) ==
    [ i \in 1..Len(ps) |->
        IF ps[i].id = postId
        THEN [ ps[i] EXCEPT !.is_liked = post.is_liked, !.likes_count = post.likes_count ]
        ELSE ps[i] ]

\* lines 422-424: which remote operation the handler calls
LikeOperation(post) == IF post.is_liked THEN "unlikePost" ELSE "likePost"

\* lines 425-453: what the invocation act does to the post list ps once its
\* awaited call has completed, the network having done o
LikeResult(ps, act, o) ==
    LET c == Request(o)
        failed == c.threw \/ ~c.env.success
    IN  [ posts |-> IF failed THEN RevertLike(ps, act.postId, act.post) ELSE ps,
          failed |-> failed,
          message |-> IF c.threw THEN "Network error. Please try again."
                      ELSE Or(c.env.message, Str("Failed to update like")).val ]

\* the calls of the dashboard awaiting their response
InFlight == Len(likes) + Len(submits) + BagCardinality(loads)

RemoveAt(seq, i) == SubSeq(seq, 1, i - 1) \o SubSeq(seq, i + 1, Len(seq))

\* the ledger of a list in which no like has failed since it was loaded: for
\* each position the values the post was loaded with and how many toggles
\* were applied to it since; `applied` counts the toggles of the whole run
Ledger(feed, applied) ==
    [ clean |-> TRUE,
      initial |-> [ i \in 1..Len(feed) |-> Values(feed[i]) ],
      count |-> [ i \in 1..Len(feed) |-> 0 ],
      applied |-> applied ]
\* the ledger once a like has failed: nothing more is recorded of the list
Spoilt(led) == [ NoLedger EXCEPT !.applied = led.applied ]

\* the ledger after the updater of lines 410-419 has run on ps
Toggled(led, ps, postId) ==
    IF led.clean
    THEN [ led EXCEPT !.applied = led.applied + 1,
                      !.count = [ i \in 1..Len(ps) |->
                                    IF ps[i].id = postId THEN led.count[i] + 1
                                    ELSE led.count[i] ] ]
    ELSE [ led EXCEPT !.applied = led.applied + 1 ]

\* the ledger after a posts response: fetchPosts sets the list (line 281),
\* loadMorePosts appends to it (line 306), a failed load leaves it
Reloaded(led, kind, listed, before, after) ==
    IF ~listed THEN led
    ELSE IF kind = "fetchPosts" THEN Ledger(after, led.applied)
    ELSE IF ~led.clean THEN led
    ELSE [ led EXCEPT !.initial = [ i \in 1..Len(after) |->
                                      IF i <= Len(before) THEN led.initial[i]
                                      ELSE Values(after[i]) ],
                      !.count = [ i \in 1..Len(after) |->
                                    IF i <= Len(before) THEN led.count[i] ELSE 0 ] ]

FeedInit ==
    /\ user \in { Profile(like) : like \in BOOLEAN }
    /\ posts = << >>
    /\ rendered = << >>
    /\ likes = << >>
    /\ error = None
    /\ lastLike = << >>
    /\ FeedIdle
    /\ hasWindow = TRUE
    /\ localStorage = Some(<< "a" >>)
    /\ cookie = Some(<< "a" >>)
    /\ call = IdleCall
    /\ variant = "feed"
    /\ isLoggingOut = FALSE
    /\ pureIn = [method |-> "getProfile", outcome |-> AbortOutcome]
    /\ pureOut = Pending

\* line 553: the page has replaced the spinner in the last render
PageShown == ~seen.isLoading

\* the like button and the comment input of a post are on the page
PostShown(postId) == PageShown /\ Find(rendered, postId) # 0

\* the run follows one more event
Event == events < MaxEvents /\ events' = events + 1

\* React commits the queued updates: the next closures see them
Render ==
    /\ rendered # posts \/ seen # View(cursor, error)
    /\ rendered' = posts
    /\ seen' = View(cursor, error)
    /\ lastLike' = << >>
    /\ lastSubmit' = << >>
    /\ lastLoad' = << >>
    /\ UNCHANGED << user, nav, posts, likes, error, ledger, newComment, submits, created,
                    cursor, loads, latest, storeVars, callVars, envVars >>

\* handleLike(postId), lines 399-424: the click on the like button of a
\* rendered post (line 685), up to the awaited call
HandleLike(postId) ==
    /\ PostShown(postId)
    /\ lastLike' = << >>
    /\ lastLoad' = << >>
    /\ lastSubmit' = << >>
    /\ IF ~user.can_like_post
       THEN /\ error' = Some("You do not have permission to like posts.")
            /\ rendered' = posts
            /\ seen' = View(cursor, error')
            /\ UNCHANGED << posts, likes, ledger >>
       ELSE IF Find(rendered, postId) = 0
            THEN UNCHANGED << posts, rendered, seen, likes, error, ledger >>
            ELSE LET post == rendered[Find(rendered, postId)]
                 IN  /\ ledger.applied < MaxToggles
                     /\ InFlight < Cardinality(FeedCalls)
                     /\ posts' = ToggleLike(posts, postId)
                     /\ rendered' = posts'
                     /\ seen' = View(cursor, error)
                     /\ likes' = Append(likes, [ postId |-> postId, post |-> Values(post),
                                                 operation |-> LikeOperation(post),
                                                 before |-> ValuesOf(posts, postId) ])
                     /\ ledger' = Toggled(ledger, posts, postId)
                     /\ UNCHANGED error
    /\ UNCHANGED << user, nav, newComment, submits, created, cursor, loads, latest,
                    storeVars, callVars, envVars >>

\* handleLike, lines 425-453: the awaited likePost/unlikePost call of the i-th
\* pending invocation completes, the network having done o
LikeCompleted(i, o) ==
    /\ i \in 1..Len(likes)
    /\ LET act == likes[i]
           r == LikeResult(posts, act, o)
       IN  /\ likes' = RemoveAt(likes, i)
           /\ posts' = r.posts
           /\ error' = IF r.failed THEN Some(r.message) ELSE error
           /\ lastLike' = << [ act |-> act, failed |-> r.failed,
                              overlapped |-> \E j \in 1..Len(likes) :
                                                 j # i /\ likes[j].postId = act.postId,
                              prior |-> ValuesOf(posts, act.postId),
                              after |-> ValuesOf(posts', act.postId) ] >>
           /\ ledger' = IF r.failed THEN Spoilt(ledger) ELSE ledger
           /\ lastLoad' = << >>
           /\ lastSubmit' = << >>
           /\ UNCHANGED << user, nav, rendered, newComment, submits, created, cursor, seen,
                           loads, latest, storeVars, callVars, envVars >>

-----------------------------------------------------------------------------
(* SpecPages: the pagination cursor of the feed dashboard.  `cursor` is the  *)
(* React state (pagination, hasMorePosts, isLoadingMore, isLoading) with     *)
(* every queued update applied and `seen` is what the last render closed     *)
(* over: the observer callback and loadMorePosts read `seen`.  Updates made  *)
(* outside a click handler (observer callback, after an await) wait for      *)
(* Render.                                                                   *)

\* how long the accumulated list may grow
MaxPosts == 2

Pagination(cp, lp) == [current_page |-> cp, last_page |-> lp]

\* lines 283 and 307: current_page < last_page
HasMoreInclusive(pg) == pg.current_page <= pg.last_page
HasMore(pg) == pg.current_page < pg.last_page

\* ApiClient.getPosts, lines 143-145: the method takes no parameter; the
\* page and the page size its callers pass are dropped and the request
\* carries no query.  The endpoint is ENDPOINTS.POSTS of the configuration
\* that declares the types the client and the dashboard import
\* (src/src/config/api.ts line 9).
GetPosts(page, perPage) == [method |-> "GET", endpoint |-> "/post", page |-> None]

\* response.data of a posts response: the posts array (None when it is not
\* an array) and the pagination object (None when it is missing)
Payload(ps, pg) == [posts |-> ps, pagination |-> pg]
NoPayload == Payload(None, None)

\* the page the server returns: every page holds one post, and the posts of
\* the pages are not told apart (the length of the list tells what was
\* appended)
ServerPage == << Post(1, FALSE, 0) >>

\* what the server may say of the cursor: a feed of one page, the first
\* and the last page of a feed of two
ServerCursors == { Pagination(1, 1), Pagination(1, 2), Pagination(2, 2) }

PostsSuccess ==
    ResponseOutcome(TRUE, Obj(Atom("object", "{\"posts\":[],\"pagination\":{}}"),
                              UndefinedAtom, UndefinedAtom))

\* what may come back from GET /post
PostsReplies ==
    { [outcome |-> PostsSuccess, payload |-> Payload(Some(ServerPage), pg)] :
        pg \in { Some(c) : c \in ServerCursors } \cup { None } }
    \cup
    { [outcome |-> o, payload |-> NoPayload] :
        o \in { PostsSuccess,
                ResponseOutcome(FALSE, Obj(UndefinedAtom, UndefinedAtom, UndefinedAtom)),
                RejectOutcome(Err(TRUE, "TypeError", "Failed to fetch")) } }

\* lines 280-291 and 305-315: what a getPosts reply does to the post list,
\* the cursor and the error of the dashboard.  The three setters of the
\* success branch run in order; reading pagination.current_page of a payload
\* without pagination throws after the first two are queued.
PostsResult(kind, ps, cur, err, reply) ==
    LET c == Request(reply.outcome)
        pay == reply.payload
        passes == /\ ~c.threw
                  /\ c.env.success
                  /\ Truthy(c.env.data)
                  /\ pay.posts # None
        list == IF kind = "fetchPosts" THEN pay.posts[1] ELSE ps \o pay.posts[1]
        fallback == IF kind = "fetchPosts" THEN "Failed to load posts"
                    ELSE "Failed to load more posts"
    IN  IF passes /\ pay.pagination # None
        THEN [ posts |-> list,
               cursor |-> [ cur EXCEPT !.pagination = pay.pagination,
                                       !.hasMorePosts = HasMore(pay.pagination[1]) ],
               error |-> err, applied |-> TRUE, listed |-> TRUE ]
        ELSE IF passes
        THEN [ posts |-> list,
               cursor |-> [ cur EXCEPT !.pagination = None ],
               error |-> Some("Network error. Please try again."), applied |-> FALSE,
               listed |-> TRUE ]
        ELSE [ posts |-> ps, cursor |-> cur,
               error |-> IF c.threw THEN Some("Network error. Please try again.")
                         ELSE Some(Or(c.env.message, Str(fallback)).val),
               applied |-> FALSE, listed |-> FALSE ]

\* a getPosts call in flight: who issued it, the page it computed, the
\* request that left the client and whether the cursor state, when it was
\* issued, had more posts and no load-more in flight
Load(kind, nextPage, cur) ==
    [ kind |-> kind, nextPage |-> nextPage, request |-> GetPosts(nextPage, 10),
      allowed |-> kind = "loadMorePosts" => (cur.hasMorePosts /\ ~cur.isLoadingMore) ]

PagesInit ==
    /\ user = Profile(TRUE)
    /\ posts = << >>
    /\ rendered = << >>
    /\ likes = << >>
    /\ error = None
    /\ lastLike = << >>
    /\ FeedIdle
    /\ hasWindow = TRUE
    /\ localStorage = Some(<< "a" >>)
    /\ cookie = Some(<< "a" >>)
    /\ call = IdleCall
    /\ variant = "feed"
    /\ isLoggingOut = FALSE
    /\ pureIn = [method |-> "getProfile", outcome |-> AbortOutcome]
    /\ pureOut = Pending

\* fetchPosts, lines 274-278: up to the awaited getPosts(1, 10)
FetchPostsStart ==
    /\ BagCardinality(loads) < MaxInFlight
    /\ error' = None
    /\ loads' = loads (+) SetToBag({ Load("fetchPosts", 1, cursor) })
    /\ lastLoad' = << >>
    /\ lastSubmit' = << >>
    /\ lastLike' = << >>

\* the mount effect, lines 320-350, which runs once: the profile has loaded,
\* fetchPosts runs.  isLoading stays true until that fetchPosts has settled
\* (line 347), and while it is true no other load can have been issued.
MountFetch ==
    /\ cursor.isLoading /\ loads = EmptyBag
    /\ FetchPostsStart
    /\ UNCHANGED << user, nav, posts, cursor, seen, latest, rendered, likes, ledger,
                    newComment, submits, created, storeVars, callVars, envVars >>

\* the Retry button of the error banner, lines 600-615, which is on the page
\* when the last render had an error: onClick={fetchPosts}
Retry ==
    /\ PageShown /\ seen.banner
    /\ FetchPostsStart
    /\ rendered' = posts
    /\ seen' = View(cursor, error')
    /\ UNCHANGED << user, nav, posts, cursor, latest, likes, ledger,
                    newComment, submits, created, storeVars, callVars, envVars >>

\* handlePostCreated, lines 546-551, called by the post form once its
\* awaited createPost call has succeeded; the form is on the page when the
\* spinner is gone and the user may create posts (lines 629-633)
HandlePostCreated ==
    /\ PageShown /\ user.can_create_post
    /\ cursor' = [ cursor EXCEPT !.pagination = None, !.hasMorePosts = TRUE ]
    /\ BagCardinality(loads) < MaxInFlight
    /\ error' = None
    /\ loads' = loads (+) SetToBag({ Load("fetchPosts", 1, cursor) })
    /\ lastLoad' = << [ kind |-> "handlePostCreated", applied |-> FALSE, malformed |-> FALSE,
                        posts |-> "kept", cursor |-> "changed" ] >>
    /\ lastSubmit' = << >>
    /\ lastLike' = << >>
    /\ UNCHANGED << user, nav, posts, seen, latest, rendered, likes, ledger,
                    newComment, submits, created, storeVars, callVars, envVars >>

\* the IntersectionObserver callback, lines 353-360, for an entry that is
\* intersecting, and loadMorePosts, lines 297-303, up to the awaited call.
\* The sentinel is rendered while there are posts and hasMorePosts holds.
Intersect ==
    /\ PageShown /\ rendered # << >> /\ seen.hasMorePosts
    /\ BagCardinality(loads) < MaxInFlight
    /\ lastLoad' = << >>
    /\ lastLike' = << >>
    /\ lastSubmit' = << >>
    /\ IF seen.hasMorePosts /\ ~seen.isLoadingMore /\ seen.pagination # None
       THEN /\ cursor' = [ cursor EXCEPT !.isLoadingMore = TRUE ]
            /\ loads' = loads (+) SetToBag({ Load("loadMorePosts",
                                                   seen.pagination[1].current_page + 1, cursor) })
       ELSE UNCHANGED << cursor, loads >>
    /\ UNCHANGED << user, nav, posts, error, seen, latest, rendered, likes, ledger,
                    newComment, submits, created, storeVars, callVars, envVars >>

\* the awaited getPosts of a call in flight completes with reply:
\* fetchPosts lines 279-293, loadMorePosts lines 304-317; when it was the
\* fetchPosts of the mount effect, the effect goes on to line 347
PostsCompleted(load, reply) ==
    /\ BagIn(load, loads)
    /\ LET r == PostsResult(load.kind, posts, cursor, error, reply)
           cur == [ r.cursor EXCEPT !.isLoadingMore = (load.kind # "loadMorePosts" /\ @),
                                    !.isLoading = FALSE ]
       IN  /\ Len(r.posts) <= MaxPosts
           /\ posts' = r.posts
           /\ cursor' = cur
           /\ error' = r.error
           /\ loads' = loads (-) SetToBag({ load })
           /\ latest' = IF r.applied THEN reply.payload.pagination ELSE latest
           /\ lastLoad' = << [ kind |-> load.kind,
                              applied |-> r.applied,
                              malformed |-> reply.outcome = PostsSuccess /\ ~r.applied,
                              posts |-> IF r.posts = posts THEN "kept" ELSE "changed",
                              cursor |-> IF /\ cur.pagination = cursor.pagination
                                            /\ cur.hasMorePosts = cursor.hasMorePosts
                                         THEN "kept" ELSE "changed" ] >>
           /\ lastSubmit' = << >>
           /\ lastLike' = << >>
           /\ ledger' = Reloaded(ledger, load.kind, r.listed, posts, r.posts)
           /\ UNCHANGED << user, nav, seen, rendered, likes, newComment, submits, created,
                           storeVars, callVars, envVars >>


-----------------------------------------------------------------------------
(* The replies of SpecFeed, the error banner and the post form *)

\* what comes back from GET /post in SpecFeed: a first page, which is also
\* the last, or a connection failure
FeedReplies ==
    { [outcome |-> PostsSuccess, payload |-> Payload(Some(feed), Some(Pagination(1, 1)))] :
        feed \in ServerFeeds }
    \cup
    { [outcome |-> RejectOutcome(Err(TRUE, "TypeError", "Failed to fetch")),
       payload |-> NoPayload] }

\* the Dismiss button of the error banner, line 605, which is on the page
\* when the last render had an error: setError(null)
Dismiss ==
    /\ PageShown /\ seen.banner
    /\ error' = None
    /\ rendered' = posts
    /\ seen' = View(cursor, error')
    /\ lastLike' = << >>
    /\ lastLoad' = << >>
    /\ lastSubmit' = << >>
    /\ UNCHANGED << user, nav, posts, likes, ledger, newComment, submits, created, cursor,
                    loads, latest, storeVars, callVars, envVars >>

\* what the post form hands to onError (part_001): the two messages of
\* handleFileChange for a chosen file that is no image or is larger than
\* 10MB (lines 26-36), in the change handler of the file input, and the
\* message of a failed createPostWithFile once handleSubmit awaited the call
\* (lines 65-75): a 422 whose body has a message and errors, a 500 whose
\* body has no message, a rejected fetch and the timeout. The message of
\* lines 52-55 is left out: the submit button is disabled and the two fields
\* are required while it would apply (lines 135-164, 204-207). So is the
\* message of line 78: createPostWithFile returns an envelope and throws
\* nothing.
PostFormErrors ==
    { [ message |-> m, awaited |-> FALSE ] :
        m \in { "Please select a valid image file", "Image size must be less than 10MB" } }
    \cup { [ message |-> Or(CreatePostWithFile(o).env.message, Str("Failed to create post")).val,
             awaited |-> TRUE ] :
             o \in { ResponseOutcome(FALSE, Obj(UndefinedAtom,
                                                Atom("string", "The given data was invalid."),
                                                Atom("object", "{\"email\":[\"taken\"]}"))),
                     ResponseOutcome(FALSE, Obj(UndefinedAtom, UndefinedAtom, UndefinedAtom)),
                     RejectOutcome(Err(TRUE, "TypeError", "Failed to fetch")),
                     AbortOutcome } }

\* onError={setError}, line 632: the post form, which is on the page when
\* the spinner is gone and the user may create posts, reports a file it
\* refuses (the change handler renders) or a failed submission (the code
\* after the await does not)
PostFormError(e) ==
    /\ PageShown /\ user.can_create_post
    /\ error' = Some(e.message)
    /\ IF e.awaited THEN UNCHANGED << rendered, seen >>
       ELSE rendered' = posts /\ seen' = View(cursor, error')
    /\ lastLike' = << >>
    /\ lastLoad' = << >>
    /\ lastSubmit' = << >>
    /\ UNCHANGED << user, nav, posts, likes, ledger, newComment, submits, created, cursor,
                    loads, latest, storeVars, callVars, envVars >>


-----------------------------------------------------------------------------
(* SpecComments: the feed's post list with the optimistic comment handler,  *)
(* and the reloads of the list (mount, Retry, handlePostCreated) that race   *)
(* with it.  The comment handler reads `newComment` and `user` of the render *)
(* of its click; every update of the list is a function of the list it is    *)
(* applied to.                                                               *)

\* how many comments a run submits
MaxComments == 2

\* a specification follows one event of each kind that is not its subject:
\* one comment in SpecFeed, one like and one comment in SpecPages, one like
\* in SpecComments
SideEvents == {1}

Comment(id, content) == [id |-> id, content |-> content]

\* what the comment input of a post may hold
Texts == {"", " ", "hi "}

\* String.prototype.trim on Texts
Trim(t) == IF t = " " THEN "" ELSE IF t = "hi " THEN "hi" ELSE t

\* newComment[postId]?.trim(), line 457: an absent key reads undefined, which
\* is falsy like the empty string
CommentText(buffers, postId) ==
    IF postId \in DOMAIN buffers THEN Trim(buffers[postId]) ELSE ""

\* { ...newComment, [postId]: value }, lines 483 and 536
SetBuffer(buffers, postId, value) ==
    [ id \in DOMAIN buffers \cup {postId} |-> IF id = postId THEN value ELSE buffers[id] ]

\* Date.now() + Math.random(), line 461: numbers far above the server's ids;
\* nothing keeps two invocations from drawing the same one
ProvisionalIds == {1700001, 1700002}

\* the id the server gives to the n-th comment it is asked to create
ServerCommentId(n) == 100 + n

\* a post of GET /post with its comments
PostWithComments(id, cs) ==
    [ Post(id, FALSE, 0) EXCEPT !.comments = cs, !.comments_count = Len(cs) ]

\* the first page as the server returns it while the comments in flight are
\* not stored yet: post 1 has no comment or one older comment, post 2 none
ServerCommentFeeds ==
    { << PostWithComments(1, cs), PostWithComments(2, << >>) >> :
        cs \in { << >>, << Comment(7, "first") >> } }

CommentSuccess ==
    ResponseOutcome(TRUE, Obj(Atom("object", "{\"comment\":{}}"), UndefinedAtom, UndefinedAtom))

\* what the network does to a createComment call
CommentOutcomes ==
    { CommentSuccess,
      ResponseOutcome(FALSE, Obj(UndefinedAtom, Atom("string", "The given data was invalid."),
                                 UndefinedAtom)),
      RejectOutcome(Err(TRUE, "TypeError", "Failed to fetch")) }

\* what is typed into the comment input in SpecFeed and SpecPages
SideTexts == {"hi "}

\* what comes back from GET /post in SpecComments
CommentFeedReplies ==
    { [outcome |-> PostsSuccess, payload |-> Payload(Some(feed), Some(Pagination(1, 1)))] :
        feed \in ServerCommentFeeds }
    \cup
    { [outcome |-> RejectOutcome(Err(TRUE, "TypeError", "Failed to fetch")),
       payload |-> NoPayload] }

\* comments.filter(c => c.id !== id), lines 510 and 524
WithoutId(cs, id) ==
    LET F[i \in 0..Len(cs)] ==
            IF i = 0 THEN << >>
            ELSE IF cs[i].id # id THEN Append(F[i - 1], cs[i]) ELSE F[i - 1]
    IN  F[Len(cs)]

\* lines 472-483: the optimistic updater
AddComment(ps, postId, tempComment) ==
    [ i \in 1..Len(ps) |->
        IF ps[i].id = postId
        THEN [ ps[i] EXCEPT !.comments = Append(ps[i].comments, tempComment),
                            !.comments_count = ps[i].comments_count + 1 ]
        ELSE ps[i] ]

\* lines 493-503: the updater that puts the server's comment in the place
\* of the provisional one
ConfirmComment(ps, postId, tempId, comment) ==
    [ i \in 1..Len(ps) |->
        IF ps[i].id = postId
        THEN [ ps[i] EXCEPT !.comments =
                   [ k \in 1..Len(ps[i].comments) |->
                       IF ps[i].comments[k].id = tempId THEN comment ELSE ps[i].comments[k] ] ]
        ELSE ps[i] ]

\* lines 506-516 and 520-530: the updater that takes the provisional comment
\* out again
RemoveComment(ps, postId, tempId) ==
    [ i \in 1..Len(ps) |->
        IF ps[i].id = postId
        THEN [ ps[i] EXCEPT !.comments = WithoutId(ps[i].comments, tempId),
                            !.comments_count = ps[i].comments_count - 1 ]
        ELSE ps[i] ]

\* the comments and the count of a post, << >> and -1 when there is no such post
CommentsOf(ps, postId) ==
    IF Find(ps, postId) = 0 THEN [ comments |-> << >>, comments_count |-> -1 ]
    ELSE [ comments |-> ps[Find(ps, postId)].comments,
           comments_count |-> ps[Find(ps, postId)].comments_count ]

\* lines 485-532: what the invocation act does to the post list ps once its
\* awaited createComment has completed, the network having done o; the
\* server's comment carries the id the server assigned and the content sent
CommentResult(ps, act, o) ==
    LET c == Request(o)
        confirmed == ~c.threw /\ c.env.success /\ Truthy(c.env.data)
    IN  [ posts |-> IF confirmed
                    THEN ConfirmComment(ps, act.postId, act.tempId,
                                        Comment(act.serverId, act.content))
                    ELSE RemoveComment(ps, act.postId, act.tempId),
          failed |-> ~confirmed,
          message |-> IF c.threw THEN "Network error. Please try again."
                      ELSE Or(c.env.message, Str("Failed to add comment")).val ]

CommentsInit ==
    /\ user = Profile(TRUE)
    /\ posts = << >>
    /\ rendered = << >>
    /\ likes = << >>
    /\ error = None
    /\ lastLike = << >>
    /\ FeedIdle
    /\ hasWindow = TRUE
    /\ localStorage = Some(<< "a" >>)
    /\ cookie = Some(<< "a" >>)
    /\ call = IdleCall
    /\ variant = "feed"
    /\ isLoggingOut = FALSE
    /\ pureIn = [method |-> "getProfile", outcome |-> AbortOutcome]
    /\ pureOut = Pending

\* the comment input of a post is on the page (lines 766-783)
CommentShown(postId) == PostShown(postId) /\ user.can_create_comment

\* handleCommentChange(postId, value), lines 535-537: the user types into
\* the comment input of a rendered post
HandleCommentChange(postId, value) ==
    /\ CommentShown(postId)
    /\ newComment' = SetBuffer(newComment, postId, value)
    /\ rendered' = posts
    /\ seen' = View(cursor, error)
    /\ lastSubmit' = << >>
    /\ lastLike' = << >>
    /\ lastLoad' = << >>
    /\ UNCHANGED << user, nav, posts, error, submits, created, likes, ledger, cursor, loads,
                    latest, storeVars, callVars, envVars >>

\* handleComment(postId), lines 456-489: Enter in the comment input of a
\* rendered post or the click on its Post button, up to the awaited call;
\* tempId is what Date.now() + Math.random() gave
HandleComment(postId, tempId) ==
    /\ CommentShown(postId)
    /\ Len(submits) < MaxInFlight
    /\ created < MaxComments
    /\ lastSubmit' = << >>
    /\ lastLike' = << >>
    /\ lastLoad' = << >>
    /\ IF CommentText(newComment, postId) = ""
       THEN UNCHANGED << posts, newComment, submits, created, rendered, seen >>
       ELSE /\ posts' = AddComment(posts, postId,
                                   Comment(tempId, CommentText(newComment, postId)))
            /\ newComment' = SetBuffer(newComment, postId, "")
            /\ submits' = Append(submits, [ postId |-> postId, tempId |-> tempId,
                                            content |-> CommentText(newComment, postId),
                                            serverId |-> ServerCommentId(created + 1),
                                            before |-> CommentsOf(posts, postId) ])
            /\ created' = created + 1
            /\ rendered' = posts'
            /\ seen' = View(cursor, error)
    /\ UNCHANGED << user, nav, error, likes, ledger, cursor, loads, latest,
                    storeVars, callVars, envVars >>

\* handleComment, lines 490-532: the awaited createComment of the i-th
\* pending invocation completes, the network having done o
CommentCompleted(i, o) ==
    /\ i \in 1..Len(submits)
    /\ LET act == submits[i]
           r == CommentResult(posts, act, o)
       IN  /\ submits' = RemoveAt(submits, i)
           /\ posts' = r.posts
           /\ error' = IF r.failed THEN Some(r.message) ELSE error
           /\ lastSubmit' = << [ act |-> act, failed |-> r.failed,
                                prior |-> CommentsOf(posts, act.postId),
                                after |-> CommentsOf(posts', act.postId) ] >>
           /\ lastLike' = << >>
           /\ lastLoad' = << >>
           /\ UNCHANGED << user, nav, newComment, created, rendered, likes, ledger, cursor,
                           seen, loads, latest, storeVars, callVars, envVars >>

CommentsNext ==
    \/ Event /\ MountFetch
    \/ Event /\ Retry
    \/ Event /\ Dismiss
    \/ Event /\ HandlePostCreated
    \/ Event /\ \E e \in PostFormErrors : PostFormError(e)
    \/ Event /\ \E load \in BagToSet(loads), reply \in CommentFeedReplies : PostsCompleted(load, reply)
    \/ Event /\ Render
    \/ Event /\ Intersect
    \/ Event /\ \E id \in PostIds, value \in Texts : HandleCommentChange(id, value)
    \/ Event /\ \E id \in PostIds, tempId \in ProvisionalIds : HandleComment(id, tempId)
    \/ Event /\ \E i \in 1..Len(submits), o \in CommentOutcomes : CommentCompleted(i, o)
    \/ Event /\ \E id \in Clicked : ledger.applied < Cardinality(SideEvents) /\ HandleLike(id)
    \/ Event /\ \E i \in 1..Len(likes), o \in FeedOutcomes : LikeCompleted(i, o)

SpecComments == CommentsInit /\ [][CommentsNext]_vars

-----------------------------------------------------------------------------
(* SpecFeed and SpecPages: the events of the page, each with its own replies *)

FeedNext ==
    \/ Event /\ InFlight < Cardinality(FeedCalls) /\ MountFetch
    \/ Event /\ InFlight < Cardinality(FeedCalls) /\ Retry
    \/ Event /\ InFlight < Cardinality(FeedCalls) /\ HandlePostCreated
    \/ Event /\ Dismiss
    \/ Event /\ \E e \in PostFormErrors : PostFormError(e)
    \/ Event /\ \E load \in BagToSet(loads), reply \in FeedReplies : PostsCompleted(load, reply)
    \/ Event /\ Render
    \/ Event /\ Intersect
    \/ Event /\ \E id \in Clicked : HandleLike(id)
    \/ Event /\ \E i \in 1..Len(likes), o \in FeedOutcomes : LikeCompleted(i, o)
    \/ Event /\ \E id \in Clicked, value \in SideTexts : HandleCommentChange(id, value)
    \/ Event /\ \E id \in Clicked, tempId \in ProvisionalIds :
                     /\ InFlight < Cardinality(FeedCalls)
                     /\ created < Cardinality(SideEvents)
                     /\ HandleComment(id, tempId)
    \/ Event /\ \E i \in 1..Len(submits), o \in CommentOutcomes : CommentCompleted(i, o)

SpecFeed == FeedInit /\ [][FeedNext]_vars

PagesNext ==
    \/ Event /\ MountFetch
    \/ Event /\ Retry
    \/ Event /\ HandlePostCreated
    \/ Event /\ Dismiss
    \/ Event /\ \E e \in PostFormErrors : PostFormError(e)
    \/ Event /\ Intersect
    \/ Event /\ Render
    \/ Event /\ \E load \in BagToSet(loads), reply \in PostsReplies : PostsCompleted(load, reply)
    \/ Event /\ \E id \in Clicked : ledger.applied < Cardinality(SideEvents) /\ HandleLike(id)
    \/ Event /\ \E i \in 1..Len(likes), o \in FeedOutcomes : LikeCompleted(i, o)
    \/ Event /\ \E id \in Clicked, value \in SideTexts : HandleCommentChange(id, value)
    \/ Event /\ \E id \in Clicked, tempId \in ProvisionalIds :
                     created < Cardinality(SideEvents) /\ HandleComment(id, tempId)
    \/ Event /\ \E i \in 1..Len(submits), o \in CommentOutcomes : CommentCompleted(i, o)

SpecPages == PagesInit /\ [][PagesNext]_vars

-----------------------------------------------------------------------------
(* SpecGuard: the route guard of src/src/middleware.ts.  A pathname is the   *)
(* sequence of the pieces the guard can tell apart: it starts with "/" and    *)
(* goes on with separators, the names of the routes, other text and an image *)
(* suffix; a string is a prefix of another when its pieces are.              *)

\* how many pieces may follow the leading "/"
MaxPathLen == 3
\* how many redirects of one navigation the model follows
MaxHops == 3

Pieces == {"/", "dashboard", "login", "register", "api", "x", ".png"}
Paths == { << "/" >> \o rest : rest \in UNION { [1..n -> Pieces] : n \in 0..MaxPathLen } }

RootPath == << "/" >>
LoginPath == << "/", "login" >>
RegisterPath == << "/", "register" >>
DashboardPath == << "/", "dashboard" >>

\* line 5
publicRoutes == { LoginPath, RegisterPath }
\* line 8
protectedRoutes == { DashboardPath }

\* String.prototype.startsWith
StartsWith(str, prefix) ==
    Len(prefix) <= Len(str) /\ SubSeq(str, 1, Len(prefix)) = prefix

\* what the auth_token cookie of a request may be: absent, empty, a token
GuardCookies == { None, Some(<< >>), Some(<< "a" >>) }

\* line 17
isPublicRoute(pathname) == pathname \in publicRoutes

\* isProtectedRoute by exact match instead of prefix
isProtectedRouteExact(pathname) == pathname \in protectedRoutes

\* lines 20-22
isProtectedRoute(pathname) == \E route \in protectedRoutes : StartsWith(pathname, route)

\* NextResponse.next() and NextResponse.redirect(url): the pathname of the
\* target and its `redirect` search parameter
PassThrough == [ kind |-> "next", pathname |-> << >>, redirect |-> None ]
RedirectTo(pathname, param) == [ kind |-> "redirect", pathname |-> pathname, redirect |-> param ]

\* middleware whose public-route branch does not look at the token
middlewarePublicAlwaysRedirects(pathname, ck) ==
    LET token == TokenTruthy(ck)
    IN  IF isProtectedRoute(pathname) /\ ~token THEN RedirectTo(LoginPath, Some(pathname))
        ELSE IF isPublicRoute(pathname) THEN RedirectTo(DashboardPath, None)
        ELSE IF pathname = RootPath
             THEN IF token THEN RedirectTo(DashboardPath, None) ELSE RedirectTo(LoginPath, None)
             ELSE PassThrough

\* middleware(request), lines 10-47; ck is the auth_token cookie of the
\* request and `token` the truthiness of request.cookies.get('auth_token')?.value
middleware(pathname, ck) ==
    LET token == TokenTruthy(ck)
    IN  IF isProtectedRoute(pathname) /\ ~token THEN RedirectTo(LoginPath, Some(pathname))
        ELSE IF isPublicRoute(pathname) /\ token THEN RedirectTo(DashboardPath, None)
        ELSE IF pathname = RootPath
             THEN IF token THEN RedirectTo(DashboardPath, None) ELSE RedirectTo(LoginPath, None)
             ELSE PassThrough

\* config.matcher, lines 50-61: the guard runs on every path but those whose
\* text after the leading "/" starts with api (or _next/static, _next/image,
\* favicon.ico) or ends with an image suffix
matcher(pathname) ==
    LET rest == Tail(pathname)
    IN  ~(rest # << >> /\ (rest[1] = "api" \/ rest[Len(rest)] = ".png"))

GuardInit ==
    /\ cookie \in GuardCookies
    /\ localStorage = cookie
    /\ hasWindow = TRUE
    /\ call = IdleCall
    /\ variant = "feed"
    /\ isLoggingOut = FALSE
    /\ pureIn = [method |-> "getProfile", outcome |-> AbortOutcome]
    /\ pureOut = Pending
    /\ user = Profile(TRUE)
    /\ posts = << >>
    /\ rendered = << >>
    /\ likes = << >>
    /\ error = None
    /\ lastLike = << >>
    /\ FeedIdle

\* the browser asks for a path; the guard keeps no state between requests,
\* so one navigation is followed from the request to the page served
Navigate(pathname) ==
    /\ nav.phase = "idle"
    /\ nav' = [ phase |-> "requested", path |-> pathname, asked |-> << >>, hops |-> 0,
                decision |-> << >> ]
    /\ UNCHANGED << storeVars, callVars, envVars, user, posts, error, likeVars, commentVars,
                    pageVars >>

\* the request reaches the server: a path the matcher leaves out is served
\* without the guard; otherwise middleware decides, and the browser follows
\* a redirect with the same cookies
Guard ==
    /\ nav.phase = "requested"
    /\ nav.hops < MaxHops
    /\ LET d == middleware(nav.path, cookie)
       IN  nav' = IF ~matcher(nav.path)
                  THEN [ nav EXCEPT !.phase = "served", !.asked = nav.path, !.decision = << >> ]
                  ELSE IF d.kind = "next"
                  THEN [ nav EXCEPT !.phase = "served", !.asked = nav.path, !.decision = << d >> ]
                  ELSE [ nav EXCEPT !.path = d.pathname, !.asked = nav.path,
                                    !.hops = nav.hops + 1, !.decision = << d >> ]
    /\ UNCHANGED << storeVars, callVars, envVars, user, posts, error, likeVars, commentVars,
                    pageVars >>

GuardNext ==
    \/ \E pathname \in Paths : Navigate(pathname)
    \/ Guard

SpecGuard == GuardInit /\ [][GuardNext]_vars

-----------------------------------------------------------------------------
(* Claims on the transport and the session store *)

UsesRequest(method) == method \in {"getProfile", "logout"}
TimeoutEnvelope ==
    Envelope(FALSE, Undefined, Str("Request timeout. Please try again."), Undefined)
IsApiResponse(env) ==
    /\ env.success \in BOOLEAN
    /\ env.message.kind \in {"undefined", "null", "string"}

\* C1: a call made through request that has completed has returned an
\* envelope to its caller and has not thrown, whatever the network did
\* (2xx, non-2xx, connection failure, body that is not JSON, timeout abort).
C1_RequestNeverThrows ==
    (call.phase = "done" /\ UsesRequest(call.method))
        => (~call.result.threw /\ IsApiResponse(call.result.env))

\* a response whose body was not JSON has been turned into a failure envelope
C1_Witness ==
    /\ call.phase = "done"
    /\ UsesRequest(call.method)
    /\ call.outcome.kind = "response"
    /\ ~call.outcome.parses
    /\ ~call.result.threw
    /\ ~call.result.env.success

\* C2: a call that has not completed 10,000 ms after it was issued is aborted
\* and completes with the timeout envelope.  The abort is a timer task and
\* may run late, so the property is that a call still pending at or beyond
\* the timeout has its abort timer armed: the abort is still to come.
C2_TimeoutBoundsEveryCall ==
    (/\ UsesRequest(call.method)
     /\ call.phase \in {"fetching", "reading"}
     /\ call.elapsed >= TIMEOUT)
        => call.armed

\* C3: for a 2xx response with JSON body B, request returns
\* {success: true, data: B.data ?? B, message: B.message}.
C3_SuccessDataIsNullish ==
    (/\ pureOut.settled
     /\ UsesRequest(pureIn.method)
     /\ pureIn.outcome.kind = "response"
     /\ pureIn.outcome.parses
     /\ pureIn.outcome.ok)
        => /\ ~pureOut.threw
           /\ pureOut.env = Envelope(TRUE,
                                     Coalesce(PropData(pureIn.outcome.body), pureIn.outcome.body),
                                     PropMessage(pureIn.outcome.body), Undefined)

NonOkJson ==
    /\ pureOut.settled
    /\ UsesRequest(pureIn.method)
    /\ pureIn.outcome.kind = "response"
    /\ pureIn.outcome.parses
    /\ ~pureIn.outcome.ok

\* C4: for a non-2xx response with JSON body B, request returns
\* {success: false, message: M, errors: B.errors}, where M is B.message
\* whenever B.message is neither null nor undefined (the empty string
\* included) and 'An error occurred' otherwise.
C4_ErrorMessageIsNullish ==
    NonOkJson
        => /\ ~pureOut.threw
           /\ pureOut.env = Envelope(FALSE, Undefined,
                                     Coalesce(PropMessage(pureIn.outcome.body), Str("An error occurred")),
                                     PropErrors(pureIn.outcome.body))

\* C5: an envelope returned by request or createPostWithFile has no errors
\* when success is true and no data when success is false.
C5_EnvelopeShape ==
    (pureOut.settled /\ ~pureOut.threw)
        => /\ pureOut.env.success => pureOut.env.errors = Undefined
           /\ ~pureOut.env.success => pureOut.env.data = Undefined

\* a non-2xx upload whose body carried a data key came back without data
C5_Witness ==
    /\ pureOut.settled
    /\ pureIn.method = "createPostWithFile"
    /\ pureIn.outcome.kind = "response"
    /\ pureIn.outcome.parses
    /\ ~pureIn.outcome.ok
    /\ pureIn.outcome.body.kind = "object"
    /\ pureIn.outcome.body.data = Atom("object", "{\"id\":1}")
    /\ ~pureOut.env.success
    /\ pureOut.env.data = Undefined

\* C6: a request issued (JSON or upload) carries Authorization: Bearer <token>
\* with the token the store held when the call was issued, if it held a
\* (non-empty) one, and carries no Authorization header otherwise.
C6_BearerOfStoredToken ==
    call.phase # "idle"
        => call.headers.Authorization =
              IF TokenTruthy(call.issuedWith) THEN Some(Bearer(call.issuedWith[1])) ELSE None

\* an upload is in flight with the token it was issued with, which has since
\* been removed from the store
C6_Witness ==
    /\ call.phase = "fetching"
    /\ call.method = "createPostWithFile"
    /\ call.headers.Authorization = Some(Bearer(<< "a" >>))
    /\ localStorage = None

\* C7: in a browser, after any setToken and removeToken calls, localStorage
\* and the auth_token cookie hold the same value or are both absent.
C7_StoresAgree == hasWindow => localStorage = cookie

\* C8: ApiClient.logout clears the stored token exactly when the remote call
\* returned success = true, leaves the store as it was otherwise, and hands
\* the remote call's envelope to its caller.
C8_LogoutClearsOnSuccessOnly ==
    (call.phase = "done" /\ call.method = "logout")
        => /\ ~call.result.threw
           /\ call.result.env = Request(call.outcome).env
           /\ call.result.env.success => call.afterApi = NoStore
           /\ ~call.result.env.success => call.afterApi = call.before

\* a logout timed out and ApiClient.logout left the stored token in place
C8_Witness ==
    /\ call.phase = "done"
    /\ call.method = "logout"
    /\ call.outcome.kind = "abort"
    /\ call.before.ls = Some(<< "a" >>)
    /\ call.afterApi = call.before

\* C9: once a dashboard logout handler, started with a token in both stores,
\* has run to its end, the token is absent from both stores, whatever the
\* remote logout returned.
C9_HandlerAlwaysClears ==
    (/\ call.phase = "done"
     /\ call.method = "logout"
     /\ TokenTruthy(call.before.ls)
     /\ call.before.ck = call.before.ls)
        => call.afterHandler = NoStore

\* C22: a completed createPostWithFile call has returned what request
\* returns for the same network outcome (2xx, non-2xx, fault, body that is
\* not JSON, timeout abort); its request carried the headers request builds
\* for the same token except for Content-Type, which it does not send, and
\* carried the FormData it was given as its body.
C22_UploadFollowsRequest ==
    (call.phase = "done" /\ call.method = "createPostWithFile")
        => /\ call.result = Request(call.outcome)
           /\ call.headers = [ RequestHeaders(call.issuedWith) EXCEPT !.ContentType = None ]
           /\ call.body = Some("formData")

\* an upload issued with a token ran into the timeout and came back with the
\* timeout envelope of request
C22_Witness ==
    /\ call.phase = "done"
    /\ call.method = "createPostWithFile"
    /\ call.outcome.kind = "abort"
    /\ call.issuedWith = Some(<< "a" >>)
    /\ call.result = Return(TimeoutEnvelope)
    /\ call.headers.ContentType = None

\* C24: an invocation of an API client operation calls fetch exactly once:
\* from the moment it is issued to after it has completed, whatever the
\* outcome, one request has been sent and none is sent again.
C24_OneRequestPerInvocation ==
    /\ call.phase = "idle" => call.sent = 0
    /\ call.phase # "idle" => call.sent = 1

\* a getProfile call was rejected by the network and has completed with a
\* failure envelope after its single request
C24_Witness ==
    /\ call.phase = "done"
    /\ call.method = "getProfile"
    /\ call.outcome.kind = "reject"
    /\ ~call.result.env.success
    /\ call.sent = 1

-----------------------------------------------------------------------------
(* Claims on the optimistic like handler *)

\* C10: when the remote call of a like toggle fails (success = false of any
\* kind, or a fault), the post's is_liked and likes_count are again what they
\* were immediately before that toggle was applied, and an error is shown.
C10_FailedLikeRestoresPreToggle ==
    (lastLike # << >> /\ lastLike[1].failed)
        => /\ lastLike[1].after = lastLike[1].act.before
           /\ error # None

\* the closed form of n toggles of a post that was loaded as v
Parity(liked, n) == IF n % 2 = 1 THEN ~liked ELSE liked
NetAdjustment(liked, n) == IF n % 2 = 0 THEN 0 ELSE IF liked THEN -1 ELSE 1

\* C11: as long as no like call has failed, a post toggled n times since it
\* was loaded has is_liked equal to the loaded is_liked flipped n times and
\* likes_count equal to the loaded count plus the net of the n adjustments,
\* whatever the interleaving of the toggles and their responses.
C11_TogglesFollowParity ==
    ledger.clean
        => \A k \in 1..Len(posts) :
              LET was == ledger.initial[k]
                  n == ledger.count[k]
              IN  /\ posts[k].is_liked = Parity(was.is_liked, n)
                  /\ posts[k].likes_count = was.likes_count + NetAdjustment(was.is_liked, n)

\* post 1 was toggled MaxToggles times, and the response to one of two
\* overlapping toggles of it has just arrived with success
C11_Witness ==
    /\ ledger.clean
    /\ ledger.count[1] = MaxToggles
    /\ lastLike # << >>
    /\ lastLike[1].overlapped
    /\ ~lastLike[1].failed
    /\ lastLike[1].act.postId = 1

\* the pre-toggle values of a post whose values after the toggle are v
Untoggle(v) ==
    [ is_liked |-> ~v.is_liked,
      likes_count |-> IF v.is_liked THEN v.likes_count - 1 ELSE v.likes_count + 1 ]

\* C12: when like actions on the same post overlap, the rollback of a failed
\* toggle is computed from the post's state at the time the rollback is
\* applied (it undoes one toggle of that state), so that the toggle applied
\* in between is not lost.
C12_RollbackFromCurrentState ==
    (lastLike # << >> /\ lastLike[1].failed /\ lastLike[1].overlapped)
        => lastLike[1].after = Untoggle(lastLike[1].prior)

\* C15: with several like actions in flight, a response changes only the
\* post of its own action, and two responses leave the same post list
\* whichever of them arrives first.
C15_ResponsesCommute ==
    \A i, j \in 1..Len(likes) : \A oi, oj \in FeedOutcomes :
        i < j =>
            LET ri == LikeResult(posts, likes[i], oi).posts
                rj == LikeResult(posts, likes[j], oj).posts
            IN  /\ \A k \in 1..Len(posts) : posts[k].id # likes[i].postId => ri[k] = posts[k]
                /\ LikeResult(ri, likes[j], oj).posts = LikeResult(rj, likes[i], oi).posts

\* C26: the remote operation of every like action in flight matches the
\* direction of the toggle its optimistic update applied: likePost when the
\* update turned is_liked from false to true, unlikePost when it turned it
\* from true to false.
C26_OperationMatchesToggle ==
    \A i \in 1..Len(likes) :
        /\ likes[i].operation = "likePost" <=> ~likes[i].before.is_liked
        /\ likes[i].operation = "unlikePost" <=> likes[i].before.is_liked

-----------------------------------------------------------------------------
(* Claims on the optimistic comment handler *)

\* C13: when the remote call of a comment submission has succeeded, the
\* post's comment list holds exactly one comment with the id the server
\* assigned, that comment has the submitted content, no entry has the
\* provisional id, and the confirmation has left comments_count as the
\* optimistic increment made it.
C13_ConfirmedCommentReplacesProvisional ==
    (lastSubmit # << >> /\ ~lastSubmit[1].failed)
        => LET act == lastSubmit[1].act
               cs == lastSubmit[1].after.comments
           IN  /\ Cardinality({ k \in 1..Len(cs) : cs[k].id = act.serverId }) = 1
               /\ \A k \in 1..Len(cs) : cs[k].id = act.serverId => cs[k].content = act.content
               /\ \A k \in 1..Len(cs) : cs[k].id # act.tempId
               /\ lastSubmit[1].after.comments_count = lastSubmit[1].prior.comments_count

\* C14: when the remote call of a comment submission has failed, the
\* submission is undone: the provisional comment, and nothing else, has left
\* the post's comment list, comments_count is one less than before the
\* response, and an error is shown.
C14_FailedCommentRestoresPost ==
    (lastSubmit # << >> /\ lastSubmit[1].failed)
        => LET act == lastSubmit[1].act
               was == lastSubmit[1].prior.comments
               cs == lastSubmit[1].after.comments
           IN  /\ \A k \in 1..Len(cs) : cs[k].id # act.tempId
               /\ cs = WithoutId(was, act.tempId)
               /\ Len(cs) = Len(was) - 1
               /\ lastSubmit[1].after.comments_count = lastSubmit[1].prior.comments_count - 1
               /\ error # None

\* C16: every post of the feed has likes_count >= 0 and comments_count >= 0
\* (the server's posts have non-negative counts).
C16_CountsNeverNegative ==
    \A k \in 1..Len(posts) : posts[k].likes_count >= 0 /\ posts[k].comments_count >= 0

\* C25: the provisional ids of the comment submissions in flight differ
\* from one another, and the provisional id of a submission matches at most
\* one entry of its post's comment list (its own provisional comment, and
\* no comment the server assigned).
C25_ProvisionalIdsUnique ==
    \A i \in 1..Len(submits) :
        LET act == submits[i]
            cs == CommentsOf(posts, act.postId).comments
        IN  /\ \A j \in 1..Len(submits) : j # i => submits[j].tempId # act.tempId
            /\ Cardinality({ k \in 1..Len(cs) : cs[k].id = act.tempId }) <= 1

-----------------------------------------------------------------------------
(* Claims on the pagination cursor *)

\* C17 as stated: hasMorePosts is true if and only if the cursor of the
\* latest successful posts response has current_page < last_page.
C17_HasMoreTracksLatestResponse ==
    latest # << >>
        => (cursor.hasMorePosts <=> latest[1].current_page < latest[1].last_page)

\* C17, amended: whenever the dashboard holds a cursor, hasMorePosts is true
\* if and only if that cursor has current_page < last_page, and it is false
\* exactly when current_page = last_page.
C17_HasMoreTracksHeldCursor ==
    cursor.pagination # None
        => /\ cursor.hasMorePosts
                <=> cursor.pagination[1].current_page < cursor.pagination[1].last_page
           /\ ~cursor.hasMorePosts
                <=> cursor.pagination[1].current_page = cursor.pagination[1].last_page

\* a load-more has brought the last page: hasMorePosts has become false
C17_Witness ==
    /\ lastLoad # << >>
    /\ lastLoad[1].kind = "loadMorePosts"
    /\ lastLoad[1].applied
    /\ cursor.pagination = Some(Pagination(2, 2))
    /\ ~cursor.hasMorePosts

LoadMoreInFlight == { l \in BagToSet(loads) : l.kind = "loadMorePosts" }

\* C18: at most one load-more fetch is outstanding at any time, and every
\* load-more fetch was issued while hasMorePosts was true and no load-more
\* fetch was in flight.
C18_OneLoadMoreAtATime ==
    /\ Cardinality(LoadMoreInFlight) <= 1
    /\ \A l \in LoadMoreInFlight : CopiesIn(l, loads) = 1 /\ l.allowed

\* C19: the request of every load-more fetch asks the server for the page
\* after the cursor's current_page.
C19_LoadMoreRequestsNextPage ==
    \A l \in LoadMoreInFlight : l.request.page = Some(l.nextPage)

\* C20: when a load-more fetch fails (success = false, a malformed payload
\* or a fault), the post list, pagination and hasMorePosts are as they were
\* before the response, and an error is shown.
C20_FailedLoadMoreKeepsCursor ==
    (lastLoad # << >> /\ lastLoad[1].kind = "loadMorePosts" /\ ~lastLoad[1].applied)
        => /\ lastLoad[1].posts = "kept"
           /\ lastLoad[1].cursor = "kept"
           /\ error # None

\* the replies that carry a page and its cursor
PageReplies == { r \in PostsReplies : r.payload.posts # None /\ r.payload.pagination # None }

\* the post list after the calls first and then second of the dashboard have
\* completed, in this order, with the replies r1 and r2
AfterBoth(first, r1, second, r2) ==
    LET one == PostsResult(first, posts, cursor, error, r1)
    IN  PostsResult(second, one.posts, one.cursor, one.error, r2).posts

\* C21: when a post has just been created, the cursor is reset (no
\* pagination, more pages assumed), a fetch of page 1 is in flight, and once
\* that fetch has succeeded the feed is exactly the page it brought,
\* whether the response of a load-more fetch in flight at the creation
\* arrives before or after it.
C21_PostCreatedReplacesFeed ==
    (lastLoad # << >> /\ lastLoad[1].kind = "handlePostCreated")
        => /\ cursor.pagination = None /\ cursor.hasMorePosts
           /\ \E l \in BagToSet(loads) : l.kind = "fetchPosts" /\ l.nextPage = 1
           /\ \A rF \in PageReplies :
                  /\ PostsResult("fetchPosts", posts, cursor, error, rF).posts
                         = rF.payload.posts[1]
                  /\ LoadMoreInFlight # {}
                         => \A rL \in PageReplies :
                                /\ AfterBoth("loadMorePosts", rL, "fetchPosts", rF)
                                       = rF.payload.posts[1]
                                /\ AfterBoth("fetchPosts", rF, "loadMorePosts", rL)
                                       = rF.payload.posts[1]

\* C27: isLoadingMore is true only while a load-more fetch is in flight; it
\* is false when a load-more fetch has completed, whatever the reply; and a
\* load-more fetch that failed has not taken away the cursor a later
\* trigger needs (if no pagination is held now, none was held before).
C27_LoadingFlagFollowsFetch ==
    /\ cursor.isLoadingMore => LoadMoreInFlight # {}
    /\ (lastLoad # << >> /\ lastLoad[1].kind = "loadMorePosts")
           => /\ ~cursor.isLoadingMore
              /\ (~lastLoad[1].applied /\ cursor.pagination = None)
                     => lastLoad[1].cursor = "kept"

-----------------------------------------------------------------------------
(* Claims on the route guard *)

\* what the request for nav.asked got: the guard's decision, or a pass when
\* the guard was not run
GuardOutcome == IF nav.decision = << >> THEN PassThrough ELSE nav.decision[1]

\* C23 as stated: a request without an auth_token cookie for a path starting
\* with /dashboard is redirected to /login, a request with an auth_token
\* cookie for /login or /register is redirected to /dashboard, and every
\* other request for a path that is not the root passes through.
C23_GuardByCookiePresence ==
    nav.asked # << >>
        => IF cookie = None /\ StartsWith(nav.asked, DashboardPath)
           THEN GuardOutcome.kind = "redirect" /\ GuardOutcome.pathname = LoginPath
           ELSE IF cookie # None /\ nav.asked \in { LoginPath, RegisterPath }
           THEN GuardOutcome.kind = "redirect" /\ GuardOutcome.pathname = DashboardPath
           ELSE nav.asked # RootPath => GuardOutcome.kind = "next"

\* C23, amended: on every path the matcher hands to the guard, a request
\* whose auth_token cookie is absent or empty is redirected from a path
\* starting with /dashboard to /login (with the path asked for as the
\* redirect parameter), a request whose auth_token cookie is non-empty is
\* redirected from /login and /register to /dashboard, and every other
\* request for a path that is not the root passes through; a path the
\* matcher leaves out is served without the guard.
C23_GuardByTruthyToken ==
    nav.asked # << >>
        => IF ~matcher(nav.asked) THEN nav.decision = << >>
           ELSE /\ nav.decision # << >>
                /\ IF ~TokenTruthy(cookie) /\ StartsWith(nav.asked, DashboardPath)
                   THEN GuardOutcome = RedirectTo(LoginPath, Some(nav.asked))
                   ELSE IF TokenTruthy(cookie) /\ nav.asked \in { LoginPath, RegisterPath }
                   THEN GuardOutcome = RedirectTo(DashboardPath, None)
                   ELSE nav.asked # RootPath => GuardOutcome = PassThrough

\* a request with an empty auth_token cookie for a path below /dashboard has
\* been redirected to /login
C23_Witness ==
    /\ nav.asked = << "/", "dashboard", "/", "x" >>
    /\ cookie = Some(<< >>)
    /\ GuardOutcome = RedirectTo(LoginPath, Some(nav.asked))
    /\ nav.path = LoginPath

\* C28: under a fixed cookie state the guard redirects a navigation at most
\* once: the target of every redirect is a path the guard lets through.
C28_NoRedirectLoop ==
    /\ nav.hops <= 1
    /\ (nav.hops = 1 /\ nav.phase = "requested")
           => (matcher(nav.path) /\ middleware(nav.path, cookie).kind = "next")
    /\ (nav.hops = 1 /\ nav.phase = "served")
           => (nav.asked = nav.path /\ nav.decision = << PassThrough >>)

\* a request for the root with a token was redirected to /dashboard, which
\* the guard then let through
C28_Witness ==
    /\ nav.phase = "served"
    /\ nav.hops = 1
    /\ nav.path = DashboardPath
    /\ TokenTruthy(cookie)
    /\ nav.decision = << PassThrough >>

====
